---- MODULE Spec2Model ----
(***************************************************************************)
(* SparseDispatcher of layers/Pathformer_EncDec.py.                        *)
(*                                                                         *)
(* Sample ids and expert ids are 1-based here (0-based in the source).     *)
(* A tensor is a record [shape, data]: shape is the sequence of its        *)
(* dimension sizes, data the sequence of its leading-dimension rows, each  *)
(* row the sequence of its elements in row-major order.                    *)
(*                                                                         *)
(* Numbers.  Linear-domain values (results of exp, the accumulator) are    *)
(* integers counted in a unit in which 1.0 is 4, 0.5 is 2 and the floor    *)
(* constant is 1.  Log-domain values are tagged pairs: Ln(n) is the        *)
(* logarithm of the linear value n, NegInf is log(0), NaN the logarithm of *)
(* a negative number.  Expert outputs are log-probabilities (spec 4.3), so *)
(* exp never overflows.                                                    *)
(***************************************************************************)
EXTENDS Integers, Sequences, FiniteSets, TLC

\* ---------------------------------------------------------------- bounds
MaxB == 2
MaxE == 2
MaxAssign == 2

\* ------------------------------------------------------------- numbers
Ln(n) == <<"ln", n>>
NegInf == <<"-inf", 0>>
NaN == <<"nan", 0>>

\* np.finfo(float).eps, the value written over exact zeros
FloatEps == 1

\* torch.exp on a log-domain value
Exp(v) == IF v[1] = "ln" THEN v[2] ELSE 0

\* torch.log on a linear-domain value
Log(n) == IF n > 0 THEN Ln(n) ELSE IF n = 0 THEN NegInf ELSE NaN

\* --------------------------------------------------------------- helpers
RECURSIVE SumSeq(_)
SumSeq(s) == IF s = <<>> THEN 0 ELSE Head(s) + SumSeq(Tail(s))

RECURSIVE Prod(_)
Prod(s) == IF s = <<>> THEN 1 ELSE Head(s) * Prod(Tail(s))

RECURSIVE Flatten(_)
Flatten(ss) == IF ss = <<>> THEN <<>> ELSE Head(ss) \o Flatten(Tail(ss))

NoTensor == [shape |-> <<>>, data |-> <<>>]

\* ------------------------------------------------------- tensor kernels
\* torch.nonzero(gates): the coordinates of the entries that are not 0, in
\* row-major order
Nonzero(g) ==
    LET rows == Len(g)
        cols == Len(g[1])
        cells == [k \in 1..(rows * cols) |->
                    <<((k - 1) \div cols) + 1, ((k - 1) % cols) + 1>>]
    IN  SelectSeq(cells, LAMBDA c : g[c[1]][c[2]] # 0)

\* Tensor.sort(0) on one column, stable=False: the index vectors torch may
\* return.  Equal keys may come out in any order.
SortIndices(col) ==
    LET n == Len(col)
    IN  {pi \in [1..n -> 1..n] :
            /\ \A p, q \in 1..n : p # q => pi[p] # pi[q]
            /\ \A p, q \in 1..n : p < q => col[pi[p]] <= col[pi[q]]}

\* mutants of PartSizes: the count taken over (gates >= 0), over (gates != 0)
PartSizesNonNegative(g) ==
    [e \in 1..Len(g[1]) |-> Cardinality({s \in 1..Len(g) : g[s][e] >= 0})]

PartSizesNonzero(g) ==
    [e \in 1..Len(g[1]) |-> Cardinality({s \in 1..Len(g) : g[s][e] # 0})]

\* (gates > 0).sum(0).tolist()
PartSizes(g) ==
    [e \in 1..Len(g[1]) |-> Cardinality({s \in 1..Len(g) : g[s][e] > 0})]

\* mutant of GatherGates: the gather always reads column 0
GatherGatesFirstColumn(g, bi, ei) == [p \in 1..Len(bi) |-> g[bi[p]][1]]

\* torch.gather(gates[batch_index], 1, expert_index)
GatherGates(g, bi, ei) == [p \in 1..Len(bi) |-> g[bi[p]][ei[p]]]

\* mutant of IndexRows: the rows are taken by position, not by index
IndexRowsByPosition(t, idx) ==
    [shape |-> <<Len(idx)>> \o Tail(t.shape),
     data  |-> [p \in 1..Len(idx) |-> t.data[IF p <= Len(t.data) THEN p ELSE 1]]]

\* inp[index]: index_select along the leading dimension
IndexRows(t, idx) ==
    [shape |-> <<Len(idx)>> \o Tail(t.shape),
     data  |-> [p \in 1..Len(idx) |-> t.data[idx[p]]]]

\* Tensor.squeeze(1) on a tensor with at least two dimensions: dimension 1
\* is dropped when its size is 1; the elements are untouched
Squeeze1(t) ==
    IF t.shape[2] = 1
    THEN [shape |-> <<t.shape[1]>> \o Tail(Tail(t.shape)), data |-> t.data]
    ELSE t

\* the chunk boundaries torch.split derives from a list of sizes
Offset(sizes, e) == SumSeq(SubSeq(sizes, 1, e - 1))

\* mutant of SplitTensor: chunks of size 0 are skipped
SplitTensorSkipEmpty(t, sizes) ==
    LET all == [e \in 1..Len(sizes) |->
                  [shape |-> <<sizes[e]>> \o Tail(t.shape),
                   data  |-> SubSeq(t.data, Offset(sizes, e) + 1, Offset(sizes, e) + sizes[e])]]
    IN  SelectSeq(all, LAMBDA c : c.shape[1] > 0)

\* torch.split(t, sizes, dim=0) when the sizes sum to the leading dimension
SplitTensor(t, sizes) ==
    [e \in 1..Len(sizes) |->
        [shape |-> <<sizes[e]>> \o Tail(t.shape),
         data  |-> SubSeq(t.data, Offset(sizes, e) + 1, Offset(sizes, e) + sizes[e])]]

\* torch.split on the [N, 1] gate column, as a sequence of weights
SplitSeq(s, sizes) ==
    [e \in 1..Len(sizes) |->
        SubSeq(s, Offset(sizes, e) + 1, Offset(sizes, e) + sizes[e])]

\* ------------------------------------------------------------ the state
VARIABLES gates, num_experts, expert_index, batch_index, part_sizes,
          nonzero_gates, pc, op, args, inp, expert_out, multiply_by_gates, err, ret

fields == <<gates, num_experts, expert_index, batch_index, part_sizes, nonzero_gates>>
callvars == <<op, args, inp, expert_out, multiply_by_gates, err, ret>>
vars == <<gates, num_experts, expert_index, batch_index, part_sizes,
          nonzero_gates, pc, op, args, inp, expert_out, multiply_by_gates, err, ret>>

\* ------------------------------------------------------------- inputs
GateWeights == {0, 1, 2}
GateEntries == {-1, 0, 1, 2}

NumNonzero(g) ==
    Cardinality({c \in (1..Len(g)) \X (1..Len(g[1])) : g[c[1]][c[2]] # 0})

HasNegative(g) == \E s \in 1..Len(g) : \E e \in 1..Len(g[1]) : g[s][e] < 0

GateMatrices(vals) ==
    UNION {{g \in [1..d[1] -> [1..d[2] -> vals]] : NumNonzero(g) <= MaxAssign} :
              d \in (1..MaxB) \X (1..MaxE)}

B == Len(gates)
E == Len(gates[1])

\* input batches: B rows, feature dimensions d1..dn, log-domain elements
InputShapes == {<<1, 1, 1>>, <<2, 1, 1>>}

\* the rows a tensor of feature shape fs is filled from
RowsOf(fs) ==
    IF Prod(fs) = 1
    THEN {<<Ln(2)>>, <<Ln(4)>>}
    ELSE {<<NegInf, Ln(4)>>, <<Ln(4), NegInf>>}

Tensors(n, fs) ==
    {[shape |-> <<n>> \o fs, data |-> d] : d \in [1..n -> RowsOf(fs)]}

Inputs == UNION {Tensors(B, fs) : fs \in InputShapes}

\* expert outputs: one tensor per expert, sizes[e] rows for expert e
OutShapes == {<<1, 1, 1>>, <<1, 2, 1>>}

OutputsOf(sizes, fs) ==
    {SplitTensor(t, sizes) : t \in Tensors(SumSeq(sizes), fs)}

WellFormedOutputs == UNION {OutputsOf(part_sizes, fs) : fs \in OutShapes}

\* expert outputs the dispatcher did not ask for: a tensor missing, a tensor
\* too many, a tensor with one row more or less, or a last tensor of another
\* shape or rank
Filled(n, fs) ==
    [shape |-> <<n>> \o fs, data |-> [p \in 1..n |-> [i \in 1..Prod(fs) |-> Ln(4)]]]

FilledList(sizes, lastfs) ==
    [e \in 1..Len(sizes) |->
        Filled(sizes[e], IF e = Len(sizes) THEN lastfs ELSE <<1, 1, 1>>)]

Without(sizes, k) == SubSeq(sizes, 1, k - 1) \o SubSeq(sizes, k + 1, Len(sizes))

MismatchedSizes ==
    {Without(part_sizes, k) : k \in 1..E}
    \cup {Append(part_sizes, n) : n \in 0..1}
    \cup {[part_sizes EXCEPT ![k] = @ + 1] : k \in 1..E}
    \cup {[part_sizes EXCEPT ![k] = @ - 1] : k \in {j \in 1..E : part_sizes[j] > 0}}

MismatchedOutputs ==
    {FilledList(sz, <<1, 1, 1>>) : sz \in MismatchedSizes}
    \cup {FilledList(part_sizes, fs) : fs \in {<<2, 1, 1>>, <<1, 1>>}}

\* ------------------------------------------------------------ operations
\* the tensors of the current call as the caller passed them
NoArgs == [inp |-> NoTensor, expert_out |-> <<>>]

\* mutant of InputAfterDispatch: the squeeze is done in place (squeeze_)
InputSqueezedInPlace(x) == Squeeze1(x)

\* the caller's input tensor once dispatch has run: inp[self._batch_index]
\* gathers into a new tensor and squeeze(1) is a view of that one
InputAfterDispatch(x) == x

\* dispatch(inp): [err, val]
DispatchResult(x, bi, ps) ==
    LET inp_exp == Squeeze1(IndexRows(x, bi))
    IN  IF SumSeq(ps) # inp_exp.shape[1]
        THEN [err |-> "split", val |-> <<>>]
        ELSE [err |-> "none", val |-> SplitTensor(inp_exp, ps)]

\* mutant of CatOk: the trailing shapes are not compared
CatOkUnchecked(outs) == outs # <<>>

\* torch.cat(expert_out, 0) accepts a non-empty list of tensors that agree
\* in every dimension but the leading one
CatOk(outs) ==
    /\ outs # <<>>
    /\ \A e \in 1..Len(outs) : Tail(outs[e].shape) = Tail(outs[1].shape)

Cat(outs) ==
    [shape |-> <<SumSeq([e \in 1..Len(outs) |-> outs[e].shape[1]])>> \o Tail(outs[1].shape),
     data  |-> Flatten([e \in 1..Len(outs) |-> outs[e].data])]

\* Tensor.exp()
ExpTensor(t) ==
    [shape |-> t.shape,
     data  |-> [p \in 1..Len(t.data) |-> [i \in 1..Len(t.data[p]) |-> Exp(t.data[p][i])]]]

\* torch.einsum("ijkh,ik -> ijkh", stitched, nonzero_gates) with nonzero_gates
\* of shape [N, 1]: the first operand has four dimensions, and the sizes of a
\* shared label agree or one of them is 1 (k always broadcasts)
EinsumOk(st, nzg) ==
    /\ Len(st.shape) = 4
    /\ \/ st.shape[1] = Len(nzg)
       \/ st.shape[1] = 1
       \/ Len(nzg) = 1

Einsum(st, nzg) ==
    LET rows == IF st.shape[1] = 1 THEN Len(nzg) ELSE st.shape[1]
    IN  [shape |-> <<rows>> \o Tail(st.shape),
         data  |-> [p \in 1..rows |->
                      LET r == st.data[IF st.shape[1] = 1 THEN 1 ELSE p]
                          w == nzg[IF Len(nzg) = 1 THEN 1 ELSE p]
                      IN  [i \in 1..Len(r) |-> r[i] * w]]]

\* zeros.index_add(0, index, source) accepts as many indices as source has
\* rows, and a source that agrees with zeros in the other dimensions
IndexAddOk(zshape, index, source) ==
    /\ Len(index) = source.shape[1]
    /\ Tail(source.shape) = Tail(zshape)

\* mutant of Accumulate: a later row overwrites an earlier one (index
\* assignment instead of index_add)
AccumulateOverwrite(index, source, s, i) ==
    LET hits == {p \in 1..Len(index) : index[p] = s}
    IN  IF hits = {} THEN 0
        ELSE source[CHOOSE p \in hits : \A q \in hits : q <= p][i]

RECURSIVE Accumulate(_, _, _, _)
Accumulate(index, source, s, i) ==
    IF index = <<>> THEN 0
    ELSE (IF Head(index) = s THEN Head(source)[i] ELSE 0)
         + Accumulate(Tail(index), Tail(source), s, i)

IndexAdd(zshape, index, source) ==
    [shape |-> zshape,
     data  |-> [s \in 1..zshape[1] |->
                 [i \in 1..Prod(Tail(zshape)) |-> Accumulate(index, source.data, s, i)]]]

\* mutant of FloorZeros: zeros are left in place
FloorZerosSkipped(t) == t

\* combined[combined == 0] = np.finfo(float).eps
FloorZeros(t) ==
    [shape |-> t.shape,
     data  |-> [s \in 1..Len(t.data) |->
                 [i \in 1..Len(t.data[s]) |->
                    IF t.data[s][i] = 0 THEN FloatEps ELSE t.data[s][i]]]]

\* Tensor.log()
LogTensor(t) ==
    [shape |-> t.shape,
     data  |-> [s \in 1..Len(t.data) |-> [i \in 1..Len(t.data[s]) |-> Log(t.data[s][i])]]]

\* mutant of OutputsAfterCombine: the last output is popped off the caller's
\* list (expert_out.pop() for expert_out[-1])
OutputsLastPopped(outs) == SubSeq(outs, 1, Len(outs) - 1)

\* the caller's expert outputs once combine has run: torch.cat copies them,
\* exp, einsum and index_add return new tensors, and the write of the floor
\* constant goes to the tensor index_add returned
OutputsAfterCombine(outs) == outs

\* combine(expert_out, multiply_by_gates): [err, val]
CombineResult(outs, mbg, nrows, bi, nzg) ==
    IF ~CatOk(outs) THEN [err |-> "cat", val |-> NoTensor]
    ELSE
    LET stitched == ExpTensor(Cat(outs)) IN
    IF mbg /\ ~EinsumOk(stitched, nzg) THEN [err |-> "einsum", val |-> NoTensor]
    ELSE
    LET weighted == IF mbg THEN Einsum(stitched, nzg) ELSE stitched
        last == outs[Len(outs)].shape
    IN
    IF Len(last) < 4 THEN [err |-> "size", val |-> NoTensor]
    ELSE
    LET zshape == <<nrows, last[2], last[3], last[4]>> IN
    IF ~IndexAddOk(zshape, bi, weighted) THEN [err |-> "index_add", val |-> NoTensor]
    ELSE [err |-> "none",
          val |-> LogTensor(FloorZeros(IndexAdd(zshape, bi, weighted)))]

\* expert_to_gates(): [err, val]
ExpertToGatesResult(nzg, ps) ==
    IF SumSeq(ps) # Len(nzg)
    THEN [err |-> "split", val |-> <<>>]
    ELSE [err |-> "none", val |-> SplitSeq(nzg, ps)]

InitWith(matrices) ==
    /\ gates \in matrices
    /\ num_experts = Len(gates[1])
    /\ expert_index = <<>>
    /\ batch_index = <<>>
    /\ part_sizes = <<>>
    /\ nonzero_gates = <<>>
    /\ pc = "new"
    /\ op = "none"
    /\ args = NoArgs
    /\ inp = NoTensor
    /\ expert_out = <<>>
    /\ multiply_by_gates = TRUE
    /\ err = "none"
    /\ ret = <<>>

\* SparseDispatcher.__init__(num_experts, gates)
Construct ==
    /\ pc = "new"
    /\ LET nz == Nonzero(gates)
           col == [p \in 1..Len(nz) |-> nz[p][2]]
       IN  \E index_sorted_experts \in SortIndices(col) :
             /\ expert_index' = [p \in 1..Len(nz) |-> col[index_sorted_experts[p]]]
             /\ batch_index' = [p \in 1..Len(nz) |-> nz[index_sorted_experts[p]][1]]
             /\ part_sizes' = PartSizes(gates)
             /\ nonzero_gates' = GatherGates(gates, batch_index', expert_index')
    /\ pc' = "ready"
    /\ UNCHANGED <<gates, num_experts, callvars>>

\* SparseDispatcher.dispatch(inp)
Dispatch ==
    /\ pc = "ready"
    /\ pc' = "called"
    /\ \E x \in Inputs :
         LET r == DispatchResult(x, batch_index, part_sizes)
         IN  /\ op' = "dispatch"
             /\ args' = [inp |-> x, expert_out |-> <<>>]
             /\ inp' = InputAfterDispatch(x)
             /\ expert_out' = <<>>
             /\ multiply_by_gates' = TRUE
             /\ err' = r.err
             /\ ret' = r.val
    /\ UNCHANGED fields

\* SparseDispatcher.expert_to_gates()
ExpertToGates ==
    /\ pc = "ready"
    /\ pc' = "called"
    /\ LET r == ExpertToGatesResult(nonzero_gates, part_sizes)
       IN  /\ op' = "expert_to_gates"
           /\ args' = NoArgs
           /\ inp' = NoTensor
           /\ expert_out' = <<>>
           /\ multiply_by_gates' = TRUE
           /\ err' = r.err
           /\ ret' = r.val
    /\ UNCHANGED fields

\* SparseDispatcher.combine(expert_out, multiply_by_gates)
Combine ==
    /\ pc = "ready"
    /\ pc' = "called"
    /\ \E outs \in WellFormedOutputs \cup MismatchedOutputs :
       \E mbg \in BOOLEAN :
         LET r == CombineResult(outs, mbg, B, batch_index, nonzero_gates)
         IN  /\ op' = "combine"
             /\ args' = [inp |-> NoTensor, expert_out |-> outs]
             /\ inp' = NoTensor
             /\ expert_out' = OutputsAfterCombine(outs)
             /\ multiply_by_gates' = mbg
             /\ err' = r.err
             /\ ret' = r.val
    /\ UNCHANGED fields

\* the caller's forward pass with identity experts:
\* combine(dispatch(inp), multiply_by_gates=True)
CombineDispatch ==
    /\ pc = "ready"
    /\ pc' = "called"
    /\ \E x \in Inputs :
         LET d == DispatchResult(x, batch_index, part_sizes)
             r == IF d.err # "none" THEN [err |-> d.err, val |-> NoTensor]
                  ELSE CombineResult(d.val, TRUE, B, batch_index, nonzero_gates)
         IN  /\ op' = "combine_dispatch"
             /\ args' = [inp |-> x, expert_out |-> d.val]
             /\ inp' = InputAfterDispatch(x)
             /\ expert_out' = OutputsAfterCombine(d.val)
             /\ multiply_by_gates' = TRUE
             /\ err' = r.err
             /\ ret' = r.val
    /\ UNCHANGED fields

\* the call returns to the caller; the dispatcher is ready for the next call
Return ==
    /\ pc = "called"
    /\ pc' = "ready"
    /\ op' = "none"
    /\ args' = NoArgs
    /\ inp' = NoTensor
    /\ expert_out' = <<>>
    /\ multiply_by_gates' = TRUE
    /\ err' = "none"
    /\ ret' = <<>>
    /\ UNCHANGED fields

Next ==
    \/ Construct
    \/ Dispatch
    \/ ExpertToGates
    \/ Combine
    \/ CombineDispatch
    \/ Return

\* gate matrices that keep the precondition: every entry >= 0
Init == InitWith(GateMatrices(GateWeights))

Spec == Init /\ [][Next]_vars

\* gate matrices that break it: at least one negative entry
InitNeg == InitWith({g \in GateMatrices(GateEntries) : HasNegative(g)})

SpecNeg == InitNeg /\ [][Next]_vars

\* ---------------------------------------------------------------- claims
Ready == pc # "new"

\* the samples routed to expert e
Routed(e) == {s \in 1..B : gates[s][e] > 0}

\* the flat position of the k-th row of expert e's chunk
FlatPos(e, k) == Offset(part_sizes, e) + k

\* expert outputs given in the order of dispatch: one tensor per expert, of
\* part_sizes[e] rows and one shared three-dimensional feature shape
InDispatchOrder(outs) ==
    /\ Len(outs) = E
    /\ \A e \in 1..E :
         /\ Len(outs[e].shape) = 4
         /\ outs[e].shape[1] = part_sizes[e]
         /\ Tail(outs[e].shape) = Tail(outs[1].shape)

\* C1: dispatch(x) returns, for each expert e, a chunk whose rows are exactly
\* the rows x[s] of the samples s with G[s, e] > 0, each such sample once; a
\* sample with k positive gate entries appears k times over all chunks and a
\* sample with an all-zero gate row appears in no chunk.
C1_DispatchRoutesRows ==
    op = "dispatch" =>
        /\ err = "none"
        /\ Len(ret) = E
        /\ \A e \in 1..E :
             /\ Len(ret[e].data) = Cardinality(Routed(e))
             /\ \E f \in [1..Len(ret[e].data) -> Routed(e)] :
                  /\ \A k, l \in 1..Len(ret[e].data) : k # l => f[k] # f[l]
                  /\ \A k \in 1..Len(ret[e].data) : ret[e].data[k] = inp.data[f[k]]
        /\ SumSeq([e \in 1..E |-> Len(ret[e].data)])
             = SumSeq([s \in 1..B |-> Cardinality({e \in 1..E : gates[s][e] > 0})])

\* a sample routed to two experts, another routed to none, distinct rows
C1_Witness ==
    /\ op = "dispatch"
    /\ err = "none"
    /\ B = 2
    /\ E = 2
    /\ \A e \in 1..E : gates[1][e] > 0 /\ gates[2][e] = 0
    /\ inp.data[1] # inp.data[2]

\* the row of expert e's output that belongs to sample i
OutRow(e, i) ==
    expert_out[e].data[CHOOSE k \in 1..part_sizes[e] : batch_index[FlatPos(e, k)] = i]

RECURSIVE MixSum(_, _, _)
MixSum(i, pos, e) ==
    IF e = 0 THEN 0
    ELSE (IF gates[i][e] > 0 THEN gates[i][e] * Exp(OutRow(e, i)[pos]) ELSE 0)
         + MixSum(i, pos, e - 1)

\* C2: with expert outputs in the order of dispatch, combine(expert_out,
\* multiply_by_gates=True) returns for every sample i and feature position
\* log(sum over experts e with G[i, e] > 0 of G[i, e] * exp(out_e[i])), the
\* sum replaced by the floor constant when it is exactly zero.
C2_CombineIsLogOfWeightedSum ==
    (op = "combine" /\ multiply_by_gates /\ InDispatchOrder(expert_out)) =>
        /\ err = "none"
        /\ Len(ret.data) = B
        /\ \A i \in 1..B :
             /\ Len(ret.data[i]) = Prod(Tail(expert_out[1].shape))
             /\ \A pos \in 1..Len(ret.data[i]) :
                  ret.data[i][pos] =
                      Log(IF MixSum(i, pos, E) = 0 THEN FloatEps ELSE MixSum(i, pos, E))

\* a sample routed to two experts with different weights whose outputs for it
\* are both non-zero after exp
C2_Witness ==
    /\ op = "combine"
    /\ multiply_by_gates
    /\ InDispatchOrder(expert_out)
    /\ err = "none"
    /\ E = 2
    /\ \E i \in 1..B :
         /\ gates[i][1] > 0
         /\ gates[i][2] > 0
         /\ gates[i][1] # gates[i][2]
         /\ Exp(OutRow(1, i)[1]) > 0
         /\ Exp(OutRow(2, i)[1]) > 0
         /\ OutRow(1, i) # OutRow(2, i)

\* C3: after construction part_sizes has length E, part_sizes[e] is the number
\* of samples s with G[s, e] > 0, and sum(part_sizes) = count(G > 0) = the
\* length of batch_index, expert_index and nonzero_gates.
C3_PartitionCompleteness ==
    Ready =>
        /\ Len(part_sizes) = E
        /\ \A e \in 1..E : part_sizes[e] = Cardinality(Routed(e))
        /\ SumSeq(part_sizes)
             = Cardinality({c \in (1..B) \X (1..E) : gates[c[1]][c[2]] > 0})
        /\ SumSeq(part_sizes) = Len(batch_index)
        /\ Len(expert_index) = Len(batch_index)
        /\ Len(nonzero_gates) = Len(batch_index)

\* an expert with no sample next to an expert with two
C3_Witness ==
    /\ Ready
    /\ E = 2
    /\ part_sizes[1] = 0
    /\ part_sizes[2] = 2

\* C4: within each expert's chunk the rows appear in strictly ascending sample
\* index: for two flat positions p < q with the same expert id,
\* batch_index[p] < batch_index[q].
C4_AscendingWithinExpert ==
    Ready =>
        \A p, q \in 1..Len(batch_index) :
            (p < q /\ expert_index[p] = expert_index[q]) => batch_index[p] < batch_index[q]

\* the part of C4 the sort does give: the flat ordering holds every non-zero
\* coordinate pair once, in non-decreasing expert id
C4_GroupedByExpert ==
    Ready =>
        /\ \A p, q \in 1..Len(expert_index) : p < q => expert_index[p] <= expert_index[q]
        /\ \A c \in (1..B) \X (1..E) :
             Cardinality({p \in 1..Len(batch_index) :
                             batch_index[p] = c[1] /\ expert_index[p] = c[2]})
               = IF gates[c[1]][c[2]] # 0 THEN 1 ELSE 0

\* C5: dispatch returns exactly E chunks, chunk e of part_sizes[e] rows, an
\* empty chunk for an expert without samples; dispatch, expert_to_gates and
\* combine on outputs in dispatch order raise nothing; an expert's empty
\* output adds nothing to the combined result.
NonEmpty(outs) == SelectSeq(outs, LAMBDA t : t.shape[1] > 0)

C5_ZeroExpertTolerance ==
    /\ op = "dispatch" =>
         /\ err = "none"
         /\ Len(ret) = E
         /\ \A e \in 1..E :
              /\ ret[e].shape[1] = part_sizes[e]
              /\ Len(ret[e].data) = part_sizes[e]
              /\ Tail(ret[e].shape) = Tail(ret[1].shape)
    /\ op = "expert_to_gates" =>
         /\ err = "none"
         /\ Len(ret) = E
         /\ \A e \in 1..E : Len(ret[e]) = part_sizes[e]
    /\ (op = "combine" /\ InDispatchOrder(expert_out)) =>
         /\ err = "none"
         /\ NonEmpty(expert_out) # <<>> =>
              ret = CombineResult(NonEmpty(expert_out), multiply_by_gates, B,
                                  batch_index, nonzero_gates).val
         /\ NonEmpty(expert_out) = <<>> =>
              \A i \in 1..B : \A pos \in 1..Len(ret.data[i]) :
                  ret.data[i][pos] = Log(FloatEps)

\* dispatch and combine with an expert that received no sample while the
\* other received some
C5_WitnessDispatch ==
    /\ op = "dispatch"
    /\ err = "none"
    /\ E = 2
    /\ part_sizes[1] = 0
    /\ part_sizes[2] > 0
    /\ ret[1].data = <<>>
    /\ ret[2].data # <<>>

C5_Witness ==
    /\ op = "combine"
    /\ err = "none"
    /\ InDispatchOrder(expert_out)
    /\ E = 2
    /\ part_sizes[1] = 0
    /\ part_sizes[2] > 0
    /\ Len(NonEmpty(expert_out)) = 1

\* C6: one flat ordering: nonzero_gates[p] = G[batch_index[p], expert_index[p]]
\* for every position p; the k-th weight of expert_to_gates()[e] is G[s, e]
\* for the sample s whose row is the k-th row of dispatch(x)[e].
C6_OneFlatOrdering ==
    /\ Ready =>
         /\ \A p \in 1..Len(nonzero_gates) :
              nonzero_gates[p] = gates[batch_index[p]][expert_index[p]]
         /\ \A e \in 1..E : \A k \in 1..part_sizes[e] :
              /\ expert_index[FlatPos(e, k)] = e
              /\ gates[batch_index[FlatPos(e, k)]][e] > 0
    /\ (op = "expert_to_gates" /\ err = "none") =>
         \A e \in 1..E : \A k \in 1..part_sizes[e] :
             ret[e][k] = gates[batch_index[FlatPos(e, k)]][e]
    /\ (op = "dispatch" /\ err = "none") =>
         \A e \in 1..E : \A k \in 1..part_sizes[e] :
             ret[e].data[k] = inp.data[batch_index[FlatPos(e, k)]]

\* expert_to_gates on a matrix whose two experts weigh one sample differently
C6_Witness ==
    /\ op = "expert_to_gates"
    /\ err = "none"
    /\ E = 2
    /\ \E s \in 1..B : gates[s][1] = 1 /\ gates[s][2] = 2
    /\ ret[1] # ret[2]

\* C7: combine returns B rows of the experts' feature dimensions, every entry
\* a finite value; an accumulator entry that is exactly zero is floored before
\* the logarithm, so a sample with an all-zero gate row gets log(floor).
Finite(v) == v[1] = "ln" /\ v[2] > 0

C7_CombineIsFinite ==
    (op = "combine" /\ err = "none") =>
        /\ ret.shape = <<B>> \o Tail(expert_out[Len(expert_out)].shape)
        /\ Len(ret.data) = B
        /\ \A i \in 1..B :
             /\ Len(ret.data[i]) = Prod(Tail(ret.shape))
             /\ \A pos \in 1..Len(ret.data[i]) :
                  /\ Finite(ret.data[i][pos])
                  /\ (\A e \in 1..E : gates[i][e] = 0) => ret.data[i][pos] = Log(FloatEps)

\* a sample without any expert next to a routed sample whose sum is zero in
\* one feature position and positive in the other
C7_Witness ==
    /\ op = "combine"
    /\ err = "none"
    /\ InDispatchOrder(expert_out)
    /\ B = 2
    /\ \A e \in 1..E : gates[2][e] = 0
    /\ \E e \in 1..E : gates[1][e] > 0
    /\ ret.data[1] = <<Log(FloatEps), Log(4 * gates[1][1])>>
    /\ ret.data[2] = <<Log(FloatEps), Log(FloatEps)>>

\* every sample is routed to exactly one expert, with gate weight 1
SingleRouted ==
    \A s \in 1..B :
        /\ Cardinality({e \in 1..E : gates[s][e] # 0}) = 1
        /\ \A e \in 1..E : gates[s][e] \in {0, 1}

\* C8: round trip: with every sample routed to exactly one expert with weight
\* 1 and identity experts, combine(dispatch(x), multiply_by_gates=True)
\* equals log(exp(x)) = x elementwise, every row at its original batch
\* position, the floor constant applying only where exp(x) is exactly zero.
C8_RoundTrip ==
    (op = "combine_dispatch" /\ SingleRouted) =>
        /\ err = "none"
        /\ Len(ret.data) = B
        /\ \A i \in 1..B :
             /\ Len(ret.data[i]) = Len(inp.data[i])
             /\ \A pos \in 1..Len(inp.data[i]) :
                  ret.data[i][pos] =
                      IF Exp(inp.data[i][pos]) = 0 THEN Log(FloatEps) ELSE inp.data[i][pos]

\* the round trip as far as the code performs it: for an input whose first
\* feature dimension is not 1
C8_RoundTripUnsqueezed ==
    (op = "combine_dispatch" /\ SingleRouted /\ inp.shape[2] # 1) =>
        /\ err = "none"
        /\ ret.shape = inp.shape
        /\ \A i \in 1..B : \A pos \in 1..Len(inp.data[i]) :
             ret.data[i][pos] =
                 IF Exp(inp.data[i][pos]) = 0 THEN Log(FloatEps) ELSE inp.data[i][pos]

TotalRows(outs) == SumSeq([e \in 1..Len(outs) |-> outs[e].shape[1]])

\* every tensor has the trailing shape of the first
SameTrailingShapes(outs) ==
    \A e, f \in 1..Len(outs) : Tail(outs[e].shape) = Tail(outs[f].shape)

C10_NegativeGatesFailAtSplit ==
    /\ pc = "new" => ENABLED Construct
    /\ Ready =>
         /\ Len(batch_index) = NumNonzero(gates)
         /\ SumSeq(part_sizes) < Len(batch_index)
    /\ op \in {"dispatch", "expert_to_gates"} =>
         /\ err = "split"
         /\ ret = <<>>

\* dispatch on a matrix with a negative and a positive entry
C10_Witness ==
    /\ op = "dispatch"
    /\ err = "split"
    /\ HasNegative(gates)
    /\ SumSeq(part_sizes) > 0

\* expert_to_gates on such a matrix
C10_WitnessGates ==
    /\ op = "expert_to_gates"
    /\ err = "split"
    /\ HasNegative(gates)

\* C11: dispatch passes the feature dimensions of the input through
\* unchanged: for an input of shape [B, d1, ..., dn], d1 = 1 included, chunk e
\* has shape [part_sizes[e], d1, ..., dn].
C11_FeatureDimsUnchanged ==
    (op = "dispatch" /\ err = "none") =>
        \A e \in 1..Len(ret) : ret[e].shape = <<part_sizes[e]>> \o Tail(inp.shape)

\* what the code does give: the feature dimensions pass through when d1 is
\* not 1, and d1 alone is dropped when it is 1
C11_FeatureDimsUnlessSqueezed ==
    (op = "dispatch" /\ err = "none") =>
        \A e \in 1..Len(ret) :
            ret[e].shape = <<part_sizes[e]>> \o
                (IF inp.shape[2] = 1 THEN Tail(Tail(inp.shape)) ELSE Tail(inp.shape))

\* C12: after construction every call of dispatch, combine and
\* expert_to_gates, and its return, leaves gates, batch_index, expert_index,
\* part_sizes and nonzero_gates unchanged, and a call leaves the caller's input
\* tensor and expert-output tensors as they were passed; a result therefore
\* depends on the arguments alone, whatever was called before.
C12_CallsLeaveStateUnchanged ==
    [][/\ pc # "new" => fields' = fields
       /\ pc' = "called" =>
            /\ inp' = args'.inp
            /\ expert_out' = args'.expert_out]_vars

\* a combine that returned a tensor for non-empty expert outputs
C12_Witness ==
    /\ pc = "called"
    /\ op = "combine"
    /\ err = "none"
    /\ batch_index # <<>>
    /\ TotalRows(expert_out) > 0
    /\ expert_out = args.expert_out

\* a dispatch of an input whose first feature dimension is 1
C12_WitnessDispatch ==
    /\ pc = "called"
    /\ op = "dispatch"
    /\ err = "none"
    /\ batch_index # <<>>
    /\ inp.shape[2] = 1
    /\ inp = args.inp

====
